---- MODULE Spec2Model ----
(***************************************************************************)
(* Model of src/app.py: fetch_url_content (link rewriting, retry loop,     *)
(* content-type resolution, dispatch to the text extractors) and           *)
(* extract_text_from_html.                                                 *)
(*                                                                         *)
(* Strings that the code inspects (URLs, Content-Type headers, payload     *)
(* bytes, texts) are sequences of tokens, so that substring tests,         *)
(* prefixes, suffixes, lower-casing and joins are computed, not assumed.   *)
(***************************************************************************)
EXTENDS Integers, Sequences, FiniteSets, TLC

\* ------------------------------------------------------------------ bounds
\* Largest max_retries argument explored (the default in the code is 5).
MaxRetriesBound == 3

\* ------------------------------------------------------- program constants
\* random.uniform(5, 10): integer points of the jitter interval.
JitterLo == 5
JitterHi == 10
\* multiplier of the linear part of the anti-bot backoff
LinearStep == 5
\* status used when no response object exists
DefaultStatus == 500
\* HTTPException status codes of the raise sites
ParseFailureStatus == 500
UnsupportedStatus == 400
ConnectionFailureStatus == 400

\* ------------------------------------------------------- generic helpers
\* seq[i..] contains pat as a prefix
PrefixAt(seq, i, pat) ==
  /\ i + Len(pat) - 1 <= Len(seq)
  /\ \A k \in 1..Len(pat) : seq[i + k - 1] = pat[k]

\* Python: pat in seq (substring test)
Contains(seq, pat) == \E i \in 1..(Len(seq) + 1) : PrefixAt(seq, i, pat)

\* Python: seq.startswith(pat)
StartsWith(seq, pat) == PrefixAt(seq, 1, pat)

\* Python: seq.endswith(pat)
EndsWith(seq, pat) ==
  /\ Len(pat) <= Len(seq)
  /\ PrefixAt(seq, Len(seq) - Len(pat) + 1, pat)

\* Python: str.lower(), token by token
LowerToken(t) ==
  CASE t = ".PDF" -> ".pdf"
    [] t = ".DOCX" -> ".docx"
    [] t = ".Pdf" -> ".pdf"
    [] t = "APPLICATION/PDF" -> "application/pdf"
    [] t = "Application/Octet-Stream" -> "application/octet-stream"
    [] t = "Text/" -> "text/"
    [] t = "HTML" -> "html"
    [] OTHER -> t

Lower(seq) == [i \in 1..Len(seq) |-> LowerToken(seq[i])]

\* 2 ** n
RECURSIVE Pow2(_)
Pow2(n) == IF n <= 0 THEN 1 ELSE 2 * Pow2(n - 1)

\* ------------------------------------------------------------------ URLs
\* tokens matched by the character class [a-zA-Z0-9_-]+
IdTokens == {"ABC123", "x_y-9", "cv", "view"}

GDriveHost == "drive.google.com"
GDriveFilePath == "/file/d/"
GDriveDownload == "/uc?export=download&id="

Urls ==
  { <<"https://", "example.com", "/", "cv", ".pdf">>,
    <<"https://", "example.com", "/", "cv", ".DOCX">>,
    <<"https://", "example.com", "/", "cv">>,
    <<"https://", GDriveHost, GDriveFilePath, "ABC123", "/", "view">>,
    <<"https://", GDriveHost, GDriveFilePath, "x_y-9", "/", "cv", ".pdf">>,
    <<"https://", GDriveHost, GDriveDownload, "ABC123">>,
    <<"https://", GDriveHost, GDriveFilePath>>,
    <<"https://", "example.com", "/", "?u=", GDriveHost, GDriveFilePath, "ABC123">> }

\* value of a local variable that has not been assigned
Unset == <<"<unset>">>

\* positions where drive\.google\.com/file/d/([a-zA-Z0-9_-]+) matches
GDriveMatches(url) ==
  { i \in 1..Len(url) :
      /\ PrefixAt(url, i, <<GDriveHost, GDriveFilePath>>)
      /\ i + 2 <= Len(url)
      /\ url[i + 2] \in IdTokens }

\* the greedy run of id tokens starting at position i
RECURSIVE IdRun(_, _)
IdRun(url, i) ==
  IF i <= Len(url) /\ url[i] \in IdTokens
    THEN <<url[i]>> \o IdRun(url, i + 1)
    ELSE <<>>

\* re.search(...): leftmost match, group(1)
GDriveFileId(url) ==
  LET i == CHOOSE m \in GDriveMatches(url) : \A n \in GDriveMatches(url) : m <= n
  IN IdRun(url, i + 2)

DirectDownloadUrlViewForm(file_id) ==
  <<"https://", GDriveHost, GDriveFilePath>> \o file_id \o <<"/download">>

\* the rewritten url of lines 79-85
DirectDownloadUrl(file_id) == <<"https://", GDriveHost, GDriveDownload>> \o file_id

NormalizeUrlKeepsShareLink(u) ==
  IF GDriveMatches(u) # {}
    THEN [url |-> u, original_url |-> u]
    ELSE [url |-> u, original_url |-> Unset]

\* the pair (url, original_url) after lines 79-85
NormalizeUrl(u) ==
  IF GDriveMatches(u) # {}
    THEN [url |-> DirectDownloadUrl(GDriveFileId(u)), original_url |-> u]
    ELSE [url |-> u, original_url |-> Unset]

\* ------------------------------------------------------- Content-Type
OctetStream == <<"application/octet-stream">>
PdfMime == <<"application/pdf">>
DocxMime == <<"application/vnd.openxmlformats-officedocument.wordprocessingml.document">>
TextHtml == <<"text/", "html">>
TextAny == <<"text/">>

\* values of the Content-Type header; <<>> is a missing or empty header
ContentTypes ==
  { <<>>,
    OctetStream,
    <<"Application/Octet-Stream">>,
    PdfMime,
    <<"APPLICATION/PDF">>,
    DocxMime,
    <<"text/", "html", "; charset=utf-8">>,
    <<"text/", "plain">>,
    <<"application/zip">> }

\* ------------------------------------------------------------ payloads
Newline == "\n"
PdfSignature == <<"%", "P", "D", "F">>
ZipSignature == <<"P", "K", "x03", "x04">>

PageText(t) == [r |-> "text", t |-> t]
PageNone == [r |-> "none", t |-> <<>>]
PageRaise == [r |-> "raise", t |-> <<>>]

\* A payload: its leading bytes (head), the structure a parser finds in it
\* (struct, items) and its decoded characters (text).
Payloads ==
  { [head |-> PdfSignature, struct |-> "pdf",
     items |-> <<PageText(<<"a">>), PageNone, PageText(<<"b">>)>>, text |-> PdfSignature],
    [head |-> PdfSignature, struct |-> "pdf",
     items |-> <<PageText(<<"a">>), PageRaise, PageText(<<"b">>)>>, text |-> PdfSignature],
    [head |-> PdfSignature, struct |-> "pdf",
     items |-> <<PageText(<<>>), PageText(<<"c">>), PageNone>>, text |-> PdfSignature],
    [head |-> PdfSignature, struct |-> "none", items |-> <<>>, text |-> PdfSignature],
    [head |-> ZipSignature, struct |-> "docx",
     items |-> <<<<"x">>, <<>>, <<"y">>>>, text |-> ZipSignature],
    [head |-> ZipSignature, struct |-> "none", items |-> <<>>, text |-> ZipSignature],
    [head |-> <<"<p>", "H", "i", " ">>, struct |-> "none", items |-> <<>>,
     text |-> <<"<script>", "x", "</script>", "<p>", "H", "i", " ", " ", "W", "o", "</p>">>],
    [head |-> <<"<nav>", "x", "<p>", "y">>, struct |-> "none", items |-> <<>>,
     text |-> <<"<nav>", "x", "<p>", "y", "</p>", "</nav>", "A", " ", " ", " ", "B",
                Newline, " ", "C", " ", "D", " ", "<style>", "x", "</style>",
                Newline, Newline, "<footer>", "y", "</footer>">>],
    [head |-> <<"H", "i">>, struct |-> "none", items |-> <<>>, text |-> <<"H", "i">>],
    [head |-> <<>>, struct |-> "none", items |-> <<>>, text |-> <<>>] }


\* ---------------------------------------------------------- text helpers
Whitespace == {" ", "\t"}

RECURSIVE Concat(_)
\* "".join(parts)
Concat(parts) ==
  IF parts = <<>> THEN <<>> ELSE Head(parts) \o Concat(Tail(parts))

RECURSIVE Join(_, _)
\* sep.join(parts)
Join(parts, sep) ==
  IF parts = <<>> THEN <<>>
  ELSE IF Len(parts) = 1 THEN Head(parts)
  ELSE Head(parts) \o sep \o Join(Tail(parts), sep)

RECURSIVE SplitChar(_, _)
\* s.split(c) for a one-character separator c
SplitChar(s, c) ==
  IF \A i \in 1..Len(s) : s[i] # c
    THEN <<s>>
    ELSE LET i == CHOOSE k \in 1..Len(s) : s[k] = c /\ \A j \in 1..(k - 1) : s[j] # c
         IN <<SubSeq(s, 1, i - 1)>> \o SplitChar(SubSeq(s, i + 1, Len(s)), c)

\* s.splitlines(): no empty last line after a final line break
SplitLines(s) ==
  LET p == SplitChar(s, Newline)
  IN IF p[Len(p)] = <<>> THEN SubSeq(p, 1, Len(p) - 1) ELSE p

RECURSIVE SplitTwoSpaces(_)
\* s.split("  "): cut at each non-overlapping pair of spaces, left to right
SplitTwoSpaces(s) ==
  LET hits == {i \in 1..(Len(s) - 1) : s[i] = " " /\ s[i + 1] = " "}
  IN IF hits = {}
       THEN <<s>>
       ELSE LET i == CHOOSE k \in hits : \A j \in hits : k <= j
            IN <<SubSeq(s, 1, i - 1)>> \o SplitTwoSpaces(SubSeq(s, i + 2, Len(s)))

RECURSIVE LStrip(_)
LStrip(s) == IF s # <<>> /\ Head(s) \in Whitespace THEN LStrip(Tail(s)) ELSE s

RECURSIVE RStrip(_)
RStrip(s) ==
  IF s # <<>> /\ s[Len(s)] \in Whitespace THEN RStrip(SubSeq(s, 1, Len(s) - 1)) ELSE s

\* s.strip()
Strip(s) == LStrip(RStrip(s))

\* [f(x) for x in xs]
StripAll(xs) == [i \in 1..Len(xs) |-> Strip(xs[i])]

RECURSIVE DropEmpty(_)
\* [x for x in xs if x]
DropEmpty(xs) ==
  IF xs = <<>> THEN <<>>
  ELSE IF Head(xs) = <<>> THEN DropEmpty(Tail(xs))
  ELSE <<Head(xs)>> \o DropEmpty(Tail(xs))

\* ------------------------------------------------- extract_text_from_html
RemovedOpenWithoutNav == {"<script>", "<style>", "<header>", "<footer>", "<form>", "<aside>"}

RemovedOpen == {"<script>", "<style>", "<header>", "<footer>", "<nav>", "<form>", "<aside>"}
RemovedClose == {"</script>", "</style>", "</header>", "</footer>", "</nav>", "</form>", "</aside>"}
OtherTags == {"<html>", "</html>", "<body>", "</body>", "<p>", "</p>"}

RECURSIVE GetText(_, _)
\* decompose() of the removed elements, then soup.get_text():
\* depth counts the removed elements that are open
GetText(html, depth) ==
  IF html = <<>> THEN <<>>
  ELSE LET t == Head(html)
           rest == Tail(html)
       IN IF t \in RemovedOpen THEN GetText(rest, depth + 1)
          ELSE IF t \in RemovedClose THEN GetText(rest, IF depth > 0 THEN depth - 1 ELSE 0)
          ELSE IF t \in OtherTags THEN GetText(rest, depth)
          ELSE IF depth > 0 THEN GetText(rest, depth)
          ELSE <<t>> \o GetText(rest, depth)

RECURSIVE Chunks(_)
\* phrase.strip() for line in lines for phrase in line.split("  ")
Chunks(lines) ==
  IF lines = <<>> THEN <<>>
  ELSE StripAll(SplitTwoSpaces(Head(lines))) \o Chunks(Tail(lines))

extract_text_from_html(html_content) ==
  LET text == GetText(html_content, 0)
      lines == StripAll(SplitLines(text))
      chunks == Chunks(lines)
  IN Join(DropEmpty(chunks), <<Newline>>)


\* ------------------------------------------------- document extractors
RECURSIVE PageTextsStopAtEmpty(_)
PageTextsStopAtEmpty(pages) ==
  IF pages = <<>> \/ Head(pages).r # "text" \/ Head(pages).t = <<>> THEN <<>>
  ELSE <<Head(pages).t>> \o PageTextsStopAtEmpty(Tail(pages))

RECURSIVE PageTexts(_)
\* page.extract_text() or "" for page in reader.pages
PageTexts(pages) ==
  IF pages = <<>> THEN <<>>
  ELSE <<IF Head(pages).r = "text" THEN Head(pages).t ELSE <<>>>> \o PageTexts(Tail(pages))

ExtractPdfLenient(content) ==
  [ok |-> TRUE,
   text |-> IF content.struct = "pdf" THEN Concat(PageTexts(content.items)) ELSE <<>>,
   err |-> <<>>]

\* outcome of the try block of the PDF branch
ExtractPdf(content) ==
  IF content.struct # "pdf"
    THEN [ok |-> FALSE, text |-> <<>>, err |-> <<"PdfReadError">>]
  ELSE IF \E i \in 1..Len(content.items) : content.items[i].r = "raise"
    THEN [ok |-> FALSE, text |-> <<>>, err |-> <<"PageExtractError">>]
  ELSE [ok |-> TRUE, text |-> Concat(PageTexts(content.items)), err |-> <<>>]

\* outcome of the try block of the DOCX branch
ExtractDocx(content) ==
  IF content.struct # "docx"
    THEN [ok |-> FALSE, text |-> <<>>, err |-> <<"PackageNotFoundError">>]
    ELSE [ok |-> TRUE, text |-> Join(content.items, <<Newline>>), err |-> <<>>]

\* ------------------------------------------------ content-type resolution
UrlForExtensionCheckFetched(url, original_url) == url

\* url_for_extension_check
UrlForExtensionCheck(url, original_url) ==
  IF original_url # Unset THEN original_url ELSE url

\* the content_type local after the octet-stream fallback
ResolveContentType(header, url_for_extension_check, content) ==
  LET content_type == Lower(header)
  IN IF Contains(content_type, OctetStream)
       THEN IF EndsWith(Lower(url_for_extension_check), <<".pdf">>) THEN PdfMime
            ELSE IF EndsWith(Lower(url_for_extension_check), <<".docx">>) THEN DocxMime
            ELSE IF StartsWith(content.head, PdfSignature) THEN PdfMime
            ELSE IF StartsWith(content.head, ZipSignature) THEN DocxMime
            ELSE content_type
       ELSE content_type

ResolvedContentKinds == {"HTML", "PDF", "DOCX", "PLAIN_TEXT", "UNSUPPORTED"}

\* the branch of the if/elif chain that content_type selects
KindOf(content_type) ==
  IF Contains(content_type, PdfMime) THEN "PDF"
  ELSE IF Contains(content_type, DocxMime) THEN "DOCX"
  ELSE IF Contains(content_type, TextHtml) THEN "HTML"
  ELSE IF Contains(content_type, TextAny) THEN "PLAIN_TEXT"
  ELSE "UNSUPPORTED"

NoExtractor == "none"

ExtractorOfRawHtml(k) ==
  CASE k = "PDF" -> "PdfReader"
    [] k = "DOCX" -> "Document"
    [] k = "HTML" -> "response.text"
    [] k = "PLAIN_TEXT" -> "response.text"
    [] OTHER -> NoExtractor

ExtractorOfWrong(k) ==
  CASE k = "PDF" -> "PdfReader"
    [] k = "DOCX" -> "Document"
    [] k = "HTML" -> "extract_text_from_html"
    [] OTHER -> "response.text"

\* what the selected branch runs on the payload
ExtractorOf(k) ==
  CASE k = "PDF" -> "PdfReader"
    [] k = "DOCX" -> "Document"
    [] k = "HTML" -> "extract_text_from_html"
    [] k = "PLAIN_TEXT" -> "response.text"
    [] OTHER -> NoExtractor

\* ------------------------------------------------------------- results
Pending == [type |-> "pending", text |-> <<>>, kind |-> "", status_code |-> 0,
            attempts |-> 0, cause |-> <<>>]

\* the function ends without return or raise
ReturnsNone == [Pending EXCEPT !.type = "none"]

ReturnText(t) == [Pending EXCEPT !.type = "text", !.text = t]

\* raise HTTPException(status_code, detail): kind names the raise site,
\* attempts and cause are what the detail string carries
Raise(kind, status_code, attempts, cause) ==
  [type |-> "error", text |-> <<>>, kind |-> kind, status_code |-> status_code,
   attempts |-> attempts, cause |-> cause]

ErrorKinds == {"CONNECTION_FAILURE", "HTTP_STATUS_FAILURE",
               "UNSUPPORTED_CONTENT_TYPE", "PARSE_FAILURE"}

\* extract_text_from_html(response.text) for each payload, tabulated
HtmlTextOf == [p \in Payloads |-> extract_text_from_html(p.text)]

\* result of running the branch for kind k on the response
DispatchResult(k, content_type, response) ==
  LET x == ExtractorOf(k)
  IN CASE x = "PdfReader" ->
            LET r == ExtractPdf(response.content)
            IN IF r.ok THEN ReturnText(r.text)
               ELSE Raise("PARSE_FAILURE", ParseFailureStatus, 0, r.err)
       [] x = "Document" ->
            LET r == ExtractDocx(response.content)
            IN IF r.ok THEN ReturnText(r.text)
               ELSE Raise("PARSE_FAILURE", ParseFailureStatus, 0, r.err)
       [] x = "extract_text_from_html" ->
            ReturnText(HtmlTextOf[response.content])
       [] x = "response.text" -> ReturnText(response.content.text)
       [] OTHER -> Raise("UNSUPPORTED_CONTENT_TYPE", UnsupportedStatus, 0, content_type)

\* ---------------------------------------------------------- retry policy
AntiBotStatuses == {403, 404, 503}
StatusCodes == {200, 403, 404, 429, 500, 503}
TransportErrors == {"ConnectionError", "Timeout"}
Jitters == JitterLo..JitterHi

\* response.raise_for_status() raises HTTPError
RaisesForStatus(status_code) == 400 <= status_code /\ status_code < 600

RangeHasNextInclusive(attempt, max_retries) == attempt <= max_retries

\* range(max_retries) yields the index attempt
RangeHasNext(attempt, max_retries) == attempt < max_retries

NextAttemptStuck(attempt) == attempt

\* the index the for statement binds after attempt
NextAttempt(attempt) == attempt + 1

AttemptsRemainOffByOne(attempt, max_retries) == attempt < max_retries

\* attempt < max_retries - 1
AttemptsRemain(attempt, max_retries) == attempt < max_retries - 1

ExponentialBackoffLinear(attempt) == 2 * attempt

\* 2 ** attempt
ExponentialBackoff(attempt) == Pow2(attempt)

LinearJitterBackoffOneBased(attempt, jitter) == (LinearStep * (attempt + 1)) + jitter

\* (5 * attempt) + random.uniform(5, 10)
LinearJitterBackoff(attempt, jitter) == (LinearStep * attempt) + jitter

\* sleep_time after an error status
StatusBackoff(status_code, attempt, jitter) ==
  IF status_code \in AntiBotStatuses
    THEN LinearJitterBackoff(attempt, jitter)
    ELSE ExponentialBackoff(attempt)


\* ----------------------------------------------------- exception routing
RequestExceptions == {"HTTPError", "ConnectionError", "Timeout"}

HandlerForCatchAll(exc) ==
  IF exc = "HTTPError" THEN "except HTTPError" ELSE "except RequestException"

\* the except clause of the loop body that catches an exception of class exc:
\* HTTPError before its base class RequestException; fastapi's HTTPException
\* is neither and leaves the function
HandlerFor(exc) ==
  IF exc = "HTTPError" THEN "except HTTPError"
  ELSE IF exc \in RequestExceptions THEN "except RequestException"
  ELSE "propagate"

\* ----------------------------------------------------------------- state
VARIABLES
  url,            \* the url local: the argument, then the address fetched
  original_url,   \* the argument when it was rewritten, else unassigned
  max_retries,    \* the max_retries argument
  pc,             \* position of the call
  attempt,        \* loop index
  response,       \* the response local (kept across iterations)
  content_type,   \* the content_type local
  kind,           \* branch selected for the last successful response
  extractors,     \* extractors run so far, in order
  result,         \* what the call returned or raised
  gets,           \* number of scraper.get calls issued
  requested,      \* addresses the GETs were sent to
  failures,       \* number of GETs that ended in an exception
  sleeps,         \* number of time.sleep calls
  sleep_time,     \* argument of the last time.sleep call
  last            \* outcome of the last scraper.get call

vars == <<url, original_url, max_retries, pc, attempt, response, content_type,
          kind, extractors, result, gets, requested, failures, sleeps,
          sleep_time, last>>

\* state of one generate_cover_letter request
VARIABLES
  request,                  \* the GenerationRequest and the client global
  h_pc,                     \* position of the handler
  resume_content,           \* the resume_content local
  job_description_content,  \* the job_description_content local
  resume_outcome,           \* what the resume fetch returned or raised
  fetch_error,              \* the HTTPException e caught from a fetch
  events,                   \* fetches and model calls issued, in order
  reply                     \* status and detail sent to the client

hvars == <<request, h_pc, resume_content, job_description_content,
           resume_outcome, fetch_error, events, reply>>

\* state of two fetch_url_content calls running in threadpool threads
VARIABLES
  calls,       \* the locals of each call
  sessions,    \* per scraper session: number of GETs sent on it
  scripts,     \* per scraper session: the responses its GETs meet, in order
  rng_draws,   \* draws taken from the random module's generator
  overlapped   \* both calls were between their first GET and their end at once

cvars == <<calls, sessions, scripts, rng_draws, overlapped>>

EmptyPayload == [head |-> <<>>, struct |-> "none", items |-> <<>>, text |-> <<>>]

\* 'response' not in locals()
NoResponse == [status_code |-> 0, content_type |-> Unset, content |-> EmptyPayload]

NoOutcome == [outcome |-> "none", attempt |-> 0, status_code |-> 0, error |-> ""]

HandlerStatusCodeDefault(resp) == DefaultStatus

\* status_code local of the HTTPError handler
HandlerStatusCode(resp) ==
  IF resp # NoResponse THEN resp.status_code ELSE DefaultStatus

\* python None
None == <<"<None>">>

NoRequest == [client |-> None, resume_url |-> None, job_description_url |-> None,
             job_description_text |-> None]

NoReply == [status_code |-> 0, detail |-> ""]

\* no request is being handled
HandlerIdle ==
  /\ request = NoRequest
  /\ h_pc = "idle"
  /\ resume_content = None
  /\ job_description_content = None
  /\ resume_outcome = Pending
  /\ fetch_error = Pending
  /\ events = <<>>
  /\ reply = NoReply

\* no pair of concurrent calls is running
ConcIdle ==
  /\ calls = <<>>
  /\ sessions = <<>>
  /\ scripts = <<>>
  /\ rng_draws = 0
  /\ overlapped = FALSE

\* no single call is being followed
FetchIdle ==
  /\ url = Unset
  /\ original_url = Unset
  /\ max_retries = 0
  /\ pc = "idle"
  /\ attempt = 0
  /\ response = NoResponse
  /\ content_type = Unset
  /\ kind = "unclassified"
  /\ extractors = <<>>
  /\ result = Pending
  /\ gets = 0
  /\ requested = {}
  /\ failures = 0
  /\ sleeps = 0
  /\ sleep_time = 0
  /\ last = NoOutcome

Init ==
  /\ url \in Urls
  /\ original_url = Unset
  /\ max_retries \in 0..MaxRetriesBound
  /\ pc = "entry"
  /\ attempt = 0
  /\ response = NoResponse
  /\ content_type = Unset
  /\ kind = "unclassified"
  /\ extractors = <<>>
  /\ result = Pending
  /\ gets = 0
  /\ requested = {}
  /\ failures = 0
  /\ sleeps = 0
  /\ sleep_time = 0
  /\ last = NoOutcome
  /\ HandlerIdle
  /\ ConcIdle

\* lines 79-101: link rewriting, session set-up
Normalize ==
  /\ pc = "entry"
  /\ url' = NormalizeUrl(url).url
  /\ original_url' = NormalizeUrl(url).original_url
  /\ pc' = "loop"
  /\ UNCHANGED <<max_retries, attempt, response, content_type, kind, extractors,
                 result, gets, requested, failures, sleeps, sleep_time, last>>
  /\ UNCHANGED <<hvars, cvars>>

\* the for statement is exhausted: the function ends without a return value
LoopExit ==
  /\ pc = "loop"
  /\ ~RangeHasNext(attempt, max_retries)
  /\ pc' = "done"
  /\ result' = ReturnsNone
  /\ UNCHANGED <<url, original_url, max_retries, attempt, response, content_type,
                 kind, extractors, gets, requested, failures, sleeps, sleep_time,
                 last>>
  /\ UNCHANGED <<hvars, cvars>>

\* body of "except RequestException as e" (lines 184-191)
RequestExceptionHandler(e) ==
  IF AttemptsRemain(attempt, max_retries)
    THEN /\ pc' = "sleeping"
         /\ sleep_time' = ExponentialBackoff(attempt)
         /\ sleeps' = sleeps + 1
         /\ UNCHANGED result
    ELSE /\ pc' = "done"
         /\ result' = Raise("CONNECTION_FAILURE", ConnectionFailureStatus, max_retries, <<e>>)
         /\ UNCHANGED <<sleeps, sleep_time>>

\* body of "except HTTPError as http_err" (lines 166-182)
HTTPErrorHandler(resp, jitter) ==
  LET status_code == HandlerStatusCode(resp)
  IN IF AttemptsRemain(attempt, max_retries)
       THEN /\ pc' = "sleeping"
            /\ sleep_time' = StatusBackoff(status_code, attempt, jitter)
            /\ sleeps' = sleeps + 1
            /\ UNCHANGED result
       ELSE /\ pc' = "done"
            /\ result' = Raise("HTTP_STATUS_FAILURE", status_code, max_retries, <<>>)
            /\ UNCHANGED <<sleeps, sleep_time>>

\* scraper.get raises a RequestException that is not an HTTPError
GetTransportFailure(e) ==
  /\ pc = "loop"
  /\ RangeHasNext(attempt, max_retries)
  /\ HandlerFor(e) = "except RequestException"
  /\ gets' = gets + 1
  /\ requested' = requested \cup {url}
  /\ failures' = failures + 1
  /\ last' = [outcome |-> "transport", attempt |-> attempt, status_code |-> 0, error |-> e]
  /\ RequestExceptionHandler(e)
  /\ UNCHANGED <<url, original_url, max_retries, attempt, response, content_type,
                 kind, extractors>>
  /\ UNCHANGED <<hvars, cvars>>

\* scraper.get returns a response on which raise_for_status raises HTTPError
GetErrorStatus(status, jitter) ==
  /\ pc = "loop"
  /\ RangeHasNext(attempt, max_retries)
  /\ RaisesForStatus(status)
  /\ HandlerFor("HTTPError") = "except HTTPError"
  /\ gets' = gets + 1
  /\ requested' = requested \cup {url}
  /\ failures' = failures + 1
  /\ response' = [status_code |-> status, content_type |-> <<>>, content |-> EmptyPayload]
  /\ last' = [outcome |-> "status", attempt |-> attempt, status_code |-> status, error |-> ""]
  /\ HTTPErrorHandler(response', jitter)
  /\ UNCHANGED <<url, original_url, max_retries, attempt, content_type, kind, extractors>>
  /\ UNCHANGED <<hvars, cvars>>

\* scraper.get returns a response that passes raise_for_status;
\* lines 109-128 resolve its content type
GetSuccess(status, header, payload) ==
  /\ pc = "loop"
  /\ RangeHasNext(attempt, max_retries)
  /\ ~RaisesForStatus(status)
  /\ gets' = gets + 1
  /\ requested' = requested \cup {url}
  /\ response' = [status_code |-> status, content_type |-> header, content |-> payload]
  /\ last' = [outcome |-> "success", attempt |-> attempt, status_code |-> status, error |-> ""]
  /\ content_type' = ResolveContentType(header, UrlForExtensionCheck(url, original_url), payload)
  /\ kind' = KindOf(content_type')
  /\ pc' = "dispatch"
  /\ UNCHANGED <<url, original_url, max_retries, attempt, extractors, result,
                 failures, sleeps, sleep_time>>
  /\ UNCHANGED <<hvars, cvars>>

\* lines 132-164: the selected branch extracts the text and returns it, or
\* raises an HTTPException, which the except clauses of the loop may catch
Dispatch ==
  /\ pc = "dispatch"
  /\ extractors' = IF ExtractorOf(kind) = NoExtractor
                     THEN extractors
                     ELSE Append(extractors, ExtractorOf(kind))
  /\ LET r == DispatchResult(kind, content_type, response)
     IN IF r.type = "error" /\ HandlerFor("HTTPException") = "except RequestException"
          THEN RequestExceptionHandler("HTTPException")
          ELSE /\ pc' = "done"
               /\ result' = r
               /\ UNCHANGED <<sleeps, sleep_time>>
  /\ UNCHANGED <<url, original_url, max_retries, attempt, response, content_type,
                 kind, gets, requested, failures, last>>
  /\ UNCHANGED <<hvars, cvars>>

\* time.sleep returns and the loop takes its next index
Wake ==
  /\ pc = "sleeping"
  /\ attempt' = NextAttempt(attempt)
  /\ pc' = "loop"
  /\ UNCHANGED <<url, original_url, max_retries, response, content_type, kind,
                 extractors, result, gets, requested, failures, sleeps,
                 sleep_time, last>>
  /\ UNCHANGED <<hvars, cvars>>

Next ==
  \/ Normalize
  \/ LoopExit
  \/ \E e \in TransportErrors : GetTransportFailure(e)
  \/ \E status \in StatusCodes, jitter \in Jitters : GetErrorStatus(status, jitter)
  \/ \E status \in StatusCodes, header \in ContentTypes, payload \in Payloads :
       GetSuccess(status, header, payload)
  \/ Dispatch
  \/ Wake

Spec == Init /\ [][Next]_vars

\* one thread runs the call: a GET ends within its timeout, a sleep ends
FairSpec == Spec /\ WF_vars(Next)

\* ======================================================= request handler
\* default of the max_retries parameter
DefaultMaxRetries == 5

ResumeUrl == <<"https://", "example.com", "/", "cv", ".pdf">>
JobUrl == <<"https://", "example.com", "/", "job">>
JobText == <<"J", "D">>

\* what fetch_url_content(u) can return or raise with the default max_retries:
\* the result of the branch run on a response that passed raise_for_status,
\* the HTTPException of the last attempt's error status, or the one of the
\* last attempt's transport failure
FetchResults(u) ==
  LET n == NormalizeUrl(u)
      check == UrlForExtensionCheck(n.url, n.original_url)
      Resolved(h, p) == ResolveContentType(h, check, p)
  IN { DispatchResult(KindOf(Resolved(h, p)), Resolved(h, p),
                      [status_code |-> 200, content_type |-> h, content |-> p]) :
         h \in ContentTypes, p \in Payloads }
     \cup { Raise("HTTP_STATUS_FAILURE", st, DefaultMaxRetries, <<>>) :
              st \in {x \in StatusCodes : RaisesForStatus(x)} }
     \cup { Raise("CONNECTION_FAILURE", ConnectionFailureStatus, DefaultMaxRetries, <<e>>) :
              e \in TransportErrors }

ResumeFetchResults == FetchResults(ResumeUrl)
JobFetchResults == FetchResults(JobUrl)

\* outcomes of client.models.generate_content: a text, an empty text, an exception
ModelOutcomes == {"text", "empty", "raise"}

Requests ==
  [client : {None, <<"client">>},
   resume_url : {ResumeUrl},
   job_description_url : {None, <<>>, JobUrl},
   job_description_text : {None, <<>>, JobText}]

FalsyNoneOnly(v) == v = None

\* python's "not v" for an optional string or object
Falsy(v) == v = None \/ v = <<>>

ReplyOf(status_code, detail) == [status_code |-> status_code, detail |-> detail]

HandlerInit ==
  /\ request \in Requests
  /\ h_pc = "start"
  /\ resume_content = None
  /\ job_description_content = None
  /\ resume_outcome = Pending
  /\ fetch_error = Pending
  /\ events = <<>>
  /\ reply = NoReply
  /\ FetchIdle
  /\ ConcIdle

\* lines 242-247: the client and the job description arguments are checked
Validate ==
  /\ h_pc = "start"
  /\ IF Falsy(request.client)
       THEN h_pc' = "done" /\ reply' = ReplyOf(500, "client not initialized")
       ELSE IF Falsy(request.job_description_url) /\ Falsy(request.job_description_text)
         THEN h_pc' = "done" /\ reply' = ReplyOf(400, "no job description")
         ELSE h_pc' = "resume" /\ UNCHANGED reply
  /\ UNCHANGED <<request, resume_content, job_description_content, resume_outcome,
                 fetch_error, events>>
  /\ UNCHANGED <<vars, cvars>>

\* lines 251-258: the resume is fetched; an HTTPException of the fetch is
\* re-raised with status 400, an empty content ends the request with 400
FetchResume(r) ==
  /\ h_pc = "resume"
  /\ events' = Append(events, "resume_fetch")
  /\ resume_outcome' = r
  /\ IF r.type = "error"
       THEN /\ fetch_error' = r
            /\ h_pc' = "done"
            /\ reply' = ReplyOf(400, "Resume URL Error")
            /\ UNCHANGED resume_content
       ELSE /\ resume_content' = (IF r.type = "text" THEN r.text ELSE None)
            /\ UNCHANGED fetch_error
            /\ IF Falsy(resume_content')
                 THEN h_pc' = "done" /\ reply' = ReplyOf(400, "resume empty")
                 ELSE h_pc' = "job" /\ UNCHANGED reply
  /\ UNCHANGED <<request, job_description_content>>
  /\ UNCHANGED <<vars, cvars>>

\* lines 271-272
CheckJobDescription(content) ==
  IF Falsy(content)
    THEN h_pc' = "done" /\ reply' = ReplyOf(400, "job description empty")
    ELSE h_pc' = "model" /\ UNCHANGED reply

\* lines 261-263, 271-272: the supplied text is the job description
UseJobDescriptionText ==
  /\ h_pc = "job"
  /\ ~(Falsy(request.job_description_text) /\ ~Falsy(request.job_description_url))
  /\ job_description_content' = request.job_description_text
  /\ CheckJobDescription(job_description_content')
  /\ UNCHANGED <<request, resume_content, resume_outcome, fetch_error, events>>
  /\ UNCHANGED <<vars, cvars>>

\* lines 261-272: without a text the job description is fetched
FetchJobDescription(r) ==
  /\ h_pc = "job"
  /\ Falsy(request.job_description_text) /\ ~Falsy(request.job_description_url)
  /\ events' = Append(events, "job_fetch")
  /\ IF r.type = "error"
       THEN /\ fetch_error' = r
            /\ h_pc' = "done"
            /\ reply' = ReplyOf(400, "Job Description URL Error")
            /\ job_description_content' = request.job_description_text
       ELSE /\ job_description_content' = (IF r.type = "text" THEN r.text ELSE None)
            /\ UNCHANGED fetch_error
            /\ CheckJobDescription(job_description_content')
  /\ UNCHANGED <<request, resume_content, resume_outcome>>
  /\ UNCHANGED <<vars, cvars>>

\* lines 275-329: the prompt is built and the model is called once
CallModel(m) ==
  /\ h_pc = "model"
  /\ events' = Append(events, "model")
  /\ h_pc' = "done"
  /\ reply' = IF m = "text" THEN ReplyOf(200, "success")
              ELSE ReplyOf(500, "Failed to generate cover letter")
  /\ UNCHANGED <<request, resume_content, job_description_content, resume_outcome,
                 fetch_error>>
  /\ UNCHANGED <<vars, cvars>>

HandlerNext ==
  \/ Validate
  \/ \E r \in ResumeFetchResults : FetchResume(r)
  \/ UseJobDescriptionText
  \/ \E r \in JobFetchResults : FetchJobDescription(r)
  \/ \E m \in ModelOutcomes : CallModel(m)

HandlerSpec == HandlerInit /\ [][HandlerNext]_<<vars, hvars, cvars>>

\* ====================================================== concurrent calls
ConcMaxRetries == 2

CallIds == {1, 2}

ConcUrl == <<"https://", "example.com", "/", "cv">>

\* what one GET can meet
Outcomes ==
  { [o |-> "transport", error |-> "Timeout", status_code |-> 0, header |-> <<>>,
     content |-> EmptyPayload],
    [o |-> "response", error |-> "", status_code |-> 503, header |-> <<>>,
     content |-> EmptyPayload],
    [o |-> "response", error |-> "", status_code |-> 200, header |-> <<"text/", "plain">>,
     content |-> [head |-> <<"H", "i">>, struct |-> "none", items |-> <<>>,
                  text |-> <<"H", "i">>]],
    [o |-> "response", error |-> "", status_code |-> 200, header |-> PdfMime,
     content |-> [head |-> PdfSignature, struct |-> "none", items |-> <<>>,
                  text |-> PdfSignature]] }

\* the connection is gone
NoMoreResponses == [o |-> "transport", error |-> "ConnectionError", status_code |-> 0,
                    header |-> <<>>, content |-> EmptyPayload]

\* the locals of a call at its entry
NewCall(u, n) ==
  [url |-> u, original_url |-> Unset, max_retries |-> n, pc |-> "entry", attempt |-> 0,
   response |-> NoResponse, content_type |-> Unset, kind |-> "unclassified",
   gets |-> 0, result |-> Pending]

\* body of "except RequestException as e" on the locals c
CallRequestException(c, e) ==
  IF AttemptsRemain(c.attempt, c.max_retries)
    THEN [c EXCEPT !.pc = "sleeping"]
    ELSE [c EXCEPT !.pc = "done",
                   !.result = Raise("CONNECTION_FAILURE", ConnectionFailureStatus,
                                    c.max_retries, <<e>>)]

\* body of "except HTTPError as http_err" on the locals c
CallHTTPError(c) ==
  IF AttemptsRemain(c.attempt, c.max_retries)
    THEN [c EXCEPT !.pc = "sleeping"]
    ELSE [c EXCEPT !.pc = "done",
                   !.result = Raise("HTTP_STATUS_FAILURE", HandlerStatusCode(c.response),
                                    c.max_retries, <<>>)]

\* lines 106-128 on the locals c when the GET meets o
CallGet(c, o) ==
  LET g == [c EXCEPT !.gets = c.gets + 1]
      resp == [status_code |-> o.status_code, content_type |-> o.header,
               content |-> o.content]
  IN IF o.o = "transport" THEN CallRequestException(g, o.error)
     ELSE IF RaisesForStatus(o.status_code)
       THEN CallHTTPError([g EXCEPT !.response = [resp EXCEPT !.content_type = <<>>]])
       ELSE LET ct == ResolveContentType(o.header,
                                         UrlForExtensionCheck(c.url, c.original_url),
                                         o.content)
            IN [g EXCEPT !.response = resp, !.content_type = ct, !.kind = KindOf(ct),
                         !.pc = "dispatch"]

\* lines 132-164 on the locals c
CallDispatch(c) ==
  LET r == DispatchResult(c.kind, c.content_type, c.response)
  IN IF r.type = "error" /\ HandlerFor("HTTPException") = "except RequestException"
       THEN CallRequestException(c, "HTTPException")
       ELSE [c EXCEPT !.pc = "done", !.result = r]

\* one step of a call on its locals c; o is what a GET of this step meets
CallStep(c, o) ==
  CASE c.pc = "entry" ->
         [c EXCEPT !.url = NormalizeUrl(c.url).url,
                   !.original_url = NormalizeUrl(c.url).original_url,
                   !.pc = "loop"]
    [] c.pc = "loop" /\ ~RangeHasNext(c.attempt, c.max_retries) ->
         [c EXCEPT !.pc = "done", !.result = ReturnsNone]
    [] c.pc = "loop" /\ RangeHasNext(c.attempt, c.max_retries) -> CallGet(c, o)
    [] c.pc = "dispatch" -> CallDispatch(c)
    [] c.pc = "sleeping" -> [c EXCEPT !.attempt = NextAttempt(c.attempt), !.pc = "loop"]
    [] OTHER -> c

\* the k-th response of a script
ResponseOf(script, k) == IF k <= Len(script) THEN script[k] ELSE NoMoreResponses

\* the call with locals c run to its end, alone, against script
RECURSIVE RunAlone(_, _)
RunAlone(c, script) ==
  IF c.pc = "done" THEN c
  ELSE RunAlone(CallStep(c, ResponseOf(script, c.gets + 1)), script)

ScraperOfShared(i) == 1

\* line 99: every call creates its own scraper session
ScraperOf(i) == i

\* what the next GET of call i meets
NextResponse(i) == ResponseOf(scripts[ScraperOf(i)], sessions[ScraperOf(i)] + 1)

\* the call is between its first GET and its end
InFlight(c) == c.gets >= 1 /\ c.pc # "done"

ConcInit ==
  /\ \E n \in [CallIds -> 0..ConcMaxRetries] :
       /\ calls = [i \in CallIds |-> NewCall(ConcUrl, n[i])]
       /\ scripts \in [CallIds -> UNION {[1..k -> Outcomes] : k \in 0..ConcMaxRetries}]
       /\ \A i \in CallIds : Len(scripts[i]) = n[i]
  /\ sessions = [i \in CallIds |-> 0]
  /\ rng_draws = 0
  /\ overlapped = FALSE
  /\ FetchIdle
  /\ HandlerIdle

\* call i takes the step its position allows
ConcStep(i) ==
  /\ calls' = [calls EXCEPT ![i] = CallStep(calls[i], NextResponse(i))]
  /\ overlapped' = (overlapped \/ \A j \in CallIds : InFlight(calls'[j]))
  /\ UNCHANGED scripts
  /\ UNCHANGED <<vars, hvars>>

ConcNormalize(i) ==
  /\ calls[i].pc = "entry"
  /\ ConcStep(i)
  /\ UNCHANGED <<sessions, rng_draws>>

ConcLoopExit(i) ==
  /\ calls[i].pc = "loop"
  /\ ~RangeHasNext(calls[i].attempt, calls[i].max_retries)
  /\ ConcStep(i)
  /\ UNCHANGED <<sessions, rng_draws>>

\* scraper.get on the call's session; random.uniform is drawn for the
\* anti-bot backoff
ConcGet(i) ==
  /\ calls[i].pc = "loop"
  /\ RangeHasNext(calls[i].attempt, calls[i].max_retries)
  /\ ConcStep(i)
  /\ sessions' = [sessions EXCEPT ![ScraperOf(i)] = @ + 1]
  /\ rng_draws' = IF /\ calls'[i].pc = "sleeping"
                     /\ NextResponse(i).o = "response"
                     /\ NextResponse(i).status_code \in AntiBotStatuses
                    THEN rng_draws + 1 ELSE rng_draws

ConcDispatch(i) ==
  /\ calls[i].pc = "dispatch"
  /\ ConcStep(i)
  /\ UNCHANGED <<sessions, rng_draws>>

ConcWake(i) ==
  /\ calls[i].pc = "sleeping"
  /\ ConcStep(i)
  /\ UNCHANGED <<sessions, rng_draws>>

ConcNext ==
  \E i \in CallIds :
    \/ ConcNormalize(i)
    \/ ConcLoopExit(i)
    \/ ConcGet(i)
    \/ ConcDispatch(i)
    \/ ConcWake(i)

ConcSpec == ConcInit /\ [][ConcNext]_<<vars, hvars, cvars>>

\* ================================================================ claims

\* ---- C1 ----------------------------------------------------------------
\* C1: for every max_retries >= 1 and every sequence of attempt outcomes,
\* a call issues at most max_retries GET requests.
C1_RetryBound == max_retries >= 1 => gets <= max_retries

\* every attempt of a call with several attempts was used up
C1_Witness ==
  /\ pc = "done"
  /\ max_retries = MaxRetriesBound
  /\ gets = max_retries
  /\ failures = max_retries

\* ---- C2 ----------------------------------------------------------------
\* C2: for every max_retries >= 1 the call eventually ends, and it ends either
\* with the extracted text or with one of the four typed errors; until then
\* it has no result.
C2_EndsWithTextOrTypedError ==
  /\ [](max_retries >= 1 /\ pc = "done" =>
          \/ result.type = "text"
          \/ result.type = "error" /\ result.kind \in ErrorKinds)
  /\ [](pc # "done" => result = Pending)
  /\ (max_retries >= 1) ~> (pc = "done")

\* the last attempt of several failed and the call ended with a typed error
C2_Witness ==
  /\ pc = "done"
  /\ max_retries >= 2
  /\ failures = max_retries
  /\ result.type = "error"
  /\ result.kind \in ErrorKinds

\* ---- C3 ----------------------------------------------------------------
\* C3: when the final (max_retries-th) attempt receives an error status, the
\* call fails with HTTP_STATUS_FAILURE carrying that attempt's status code and
\* the attempt count max_retries, and no sleep follows that attempt.
C3_FinalErrorStatus ==
  (last.outcome = "status" /\ last.attempt = max_retries - 1) =>
    /\ pc = "done"
    /\ result.type = "error"
    /\ result.kind = "HTTP_STATUS_FAILURE"
    /\ result.status_code = last.status_code
    /\ result.status_code = response.status_code
    /\ result.attempts = max_retries
    /\ gets = max_retries
    /\ sleeps = max_retries - 1

\* 404 on the last of MaxRetriesBound attempts
C3_Witness ==
  /\ pc = "done"
  /\ max_retries = MaxRetriesBound
  /\ last.outcome = "status"
  /\ last.attempt = max_retries - 1
  /\ result.kind = "HTTP_STATUS_FAILURE"
  /\ result.status_code = 404
  /\ result.attempts = MaxRetriesBound

\* ---- C4 ----------------------------------------------------------------
\* C4: after a transport failure at attempt index i: when i < max_retries - 1
\* the call sleeps 2^i seconds and then issues another GET; when
\* i = max_retries - 1 it fails with CONNECTION_FAILURE carrying that error
\* and the attempt count max_retries, without sleeping.
C4_TransportFailure ==
  /\ [](last.outcome = "transport" =>
          IF last.attempt < max_retries - 1
            THEN /\ sleep_time = 2 ^ last.attempt
                 /\ sleeps = last.attempt + 1
                 /\ \/ pc = "sleeping" /\ attempt = last.attempt
                    \/ pc = "loop" /\ attempt = last.attempt + 1
                                   /\ attempt < max_retries
            ELSE /\ pc = "done"
                 /\ result.type = "error"
                 /\ result.kind = "CONNECTION_FAILURE"
                 /\ result.cause = <<last.error>>
                 /\ result.attempts = max_retries
                 /\ sleeps = last.attempt)
  /\ [][(last.outcome = "transport" /\ pc = "loop") => gets' = gets + 1]_vars

\* a timeout at index 1 of several attempts: the call sleeps 2 seconds
C4_Witness ==
  /\ pc = "sleeping"
  /\ last.outcome = "transport"
  /\ last.error = "Timeout"
  /\ last.attempt = 1
  /\ sleep_time = 2


\* ---- C5 ----------------------------------------------------------------
\* the last response has a supported kind and its payload parses
C5_Parseable ==
  /\ kind \in {"PDF", "DOCX", "HTML", "PLAIN_TEXT"}
  /\ kind = "PDF" =>
       /\ response.content.struct = "pdf"
       /\ \A i \in 1..Len(response.content.items) : response.content.items[i].r # "raise"
  /\ kind = "DOCX" => response.content.struct = "docx"

\* the text of the last response, by kind
C5_ExpectedText ==
  CASE kind = "PDF" -> Concat(PageTexts(response.content.items))
    [] kind = "DOCX" -> Join(response.content.items, <<Newline>>)
    [] kind = "HTML" -> HtmlTextOf[response.content]
    [] OTHER -> response.content.text

\* C5: when the first j attempts fail (error status or transport failure) and
\* attempt j+1 gets a success status with a supported, parseable kind, the call
\* returns the text extracted from that response after exactly j+1 GETs and
\* issues no GET afterwards.
C5_SuccessAfterFailures ==
  /\ []((last.outcome = "success" /\ C5_Parseable) =>
          /\ failures = last.attempt
          /\ gets = failures + 1
          /\ sleeps = failures
          /\ \/ pc = "dispatch"
             \/ pc = "done" /\ result = ReturnText(C5_ExpectedText))
  /\ [][last.outcome = "success" => gets' = gets]_vars

\* two failures, then an HTML page on the third attempt
C5_Witness ==
  /\ pc = "done"
  /\ failures = 2
  /\ gets = 3
  /\ last.outcome = "success"
  /\ kind = "HTML"
  /\ result.type = "text"
  /\ result.text = <<"H", "i", Newline, "W", "o">>

\* ---- C6 ----------------------------------------------------------------
\* C6: a success response that resolves to an unsupported kind makes the call
\* fail at once with UNSUPPORTED_CONTENT_TYPE carrying the resolved declared
\* type: no further GET and no sleep, at every attempt index.
C6_UnsupportedFailsAtOnce ==
  /\ []((last.outcome = "success" /\ kind = "UNSUPPORTED") =>
          /\ gets = failures + 1
          /\ sleeps = failures
          /\ content_type = Lower(response.content_type)
          /\ \/ pc = "dispatch"
             \/ /\ pc = "done"
                /\ result.type = "error"
                /\ result.kind = "UNSUPPORTED_CONTENT_TYPE"
                /\ result.cause = content_type
                /\ extractors = <<>>)
  /\ [][kind = "UNSUPPORTED" => (gets' = gets /\ sleeps' = sleeps)]_vars

\* application/zip on the first of several attempts
C6_Witness ==
  /\ pc = "done"
  /\ max_retries >= 2
  /\ attempt = 0
  /\ response.content_type = <<"application/zip">>
  /\ response.content.head = ZipSignature
  /\ result.kind = "UNSUPPORTED_CONTENT_TYPE"
  /\ result.cause = <<"application/zip">>
  /\ sleeps = 0

\* ---- C7 ----------------------------------------------------------------
\* the last response is classified PDF or DOCX and its payload is not a
\* document of that format
C7_Corrupt ==
  /\ last.outcome = "success"
  /\ \/ kind = "PDF" /\ response.content.struct # "pdf"
     \/ kind = "DOCX" /\ response.content.struct # "docx"

\* C7: a payload classified PDF or DOCX that fails structural parsing makes
\* the call fail with PARSE_FAILURE carrying the parser's error; no further
\* GET is issued and no sleep is performed, even when attempts remain.
C7_ParseFailureNotRetried ==
  /\ [](C7_Corrupt =>
          /\ gets = failures + 1
          /\ sleeps = failures
          /\ \/ pc = "dispatch"
             \/ /\ pc = "done"
                /\ result.type = "error"
                /\ result.kind = "PARSE_FAILURE"
                /\ result.cause = IF kind = "PDF" THEN <<"PdfReadError">>
                                                  ELSE <<"PackageNotFoundError">>)
  /\ [][C7_Corrupt => (gets' = gets /\ sleeps' = sleeps)]_vars

\* a corrupt PDF on the first of several attempts
C7_Witness ==
  /\ pc = "done"
  /\ max_retries >= 2
  /\ attempt = 0
  /\ kind = "PDF"
  /\ response.content.struct = "none"
  /\ result.kind = "PARSE_FAILURE"
  /\ result.cause = <<"PdfReadError">>

\* ---- C8 ----------------------------------------------------------------
\* C8: after an error status at attempt index i with attempts remaining, the
\* delay before the next GET is within [5*i + 5, 5*i + 10] seconds when the
\* status is 403, 404 or 503, and exactly 2^i seconds for any other status.
C8_BackoffPolicy ==
  (last.outcome = "status" /\ last.attempt < max_retries - 1) =>
    /\ sleeps = last.attempt + 1
    /\ IF last.status_code \in {403, 404, 503}
         THEN /\ 5 * last.attempt + 5 <= sleep_time
              /\ sleep_time <= 5 * last.attempt + 10
         ELSE sleep_time = 2 ^ last.attempt
    /\ \/ pc = "sleeping" /\ attempt = last.attempt
       \/ pc = "loop" /\ attempt = last.attempt + 1 /\ attempt < max_retries

\* 503 at index 1 with the largest jitter: 15 seconds
C8_Witness ==
  /\ pc = "sleeping"
  /\ last.outcome = "status"
  /\ last.status_code = 503
  /\ attempt = 1
  /\ sleep_time = 15

\* ---- C9 ----------------------------------------------------------------
\* the suffix of the original URL names no kind
C9_SuffixUnresolved ==
  LET u == Lower(UrlForExtensionCheck(url, original_url))
  IN ~EndsWith(u, <<".pdf">>) /\ ~EndsWith(u, <<".docx">>)

\* C9: for every success response whose declared type is empty or the generic
\* application/octet-stream and whose URL suffix resolves nothing, a payload
\* starting with %PDF is classified PDF, one starting with PK 0x03 0x04 is
\* classified DOCX, and only a payload matching neither is UNSUPPORTED.
C9_SignatureFallback ==
  (/\ last.outcome = "success"
   /\ Lower(response.content_type) \in {<<>>, OctetStream}
   /\ C9_SuffixUnresolved) =>
    /\ StartsWith(response.content.head, PdfSignature) => kind = "PDF"
    /\ StartsWith(response.content.head, ZipSignature) => kind = "DOCX"
    /\ kind = "UNSUPPORTED" =>
         /\ ~StartsWith(response.content.head, PdfSignature)
         /\ ~StartsWith(response.content.head, ZipSignature)

\* ---- C10 ---------------------------------------------------------------
\* C10: every success response is classified to exactly one kind before any
\* extraction; at most one extractor runs per call and it is the one of the
\* resolved kind; an UNSUPPORTED response reaches no extractor and no
\* pass-through and ends in an error.
C10_ClassifiedBeforeExtraction ==
  /\ (last.outcome = "success") <=> (kind \in ResolvedContentKinds)
  /\ pc = "dispatch" => (last.outcome = "success" /\ extractors = <<>> /\ result = Pending)
  /\ Len(extractors) <= 1
  /\ extractors # <<>> =>
       \/ kind = "PDF" /\ extractors = <<"PdfReader">>
       \/ kind = "DOCX" /\ extractors = <<"Document">>
       \/ kind = "HTML" /\ extractors = <<"extract_text_from_html">>
       \/ kind = "PLAIN_TEXT" /\ extractors = <<"response.text">>
  /\ kind = "UNSUPPORTED" =>
       /\ extractors = <<>>
       /\ pc = "done" => result.type = "error"
  /\ (pc = "done" /\ result.type = "text") => Len(extractors) = 1

\* an octet-stream response classified PDF and read by the PDF extractor
C10_Witness ==
  /\ pc = "done"
  /\ response.content_type = OctetStream
  /\ kind = "PDF"
  /\ extractors = <<"PdfReader">>
  /\ result.type = "text"


\* ---- C11 ---------------------------------------------------------------
\* the url argument of the call
C11_Argument == IF original_url # Unset THEN original_url ELSE url

\* first position of drive.google.com/file/d/<fileId> in u, 0 when absent
C11_FileViewAt(u) ==
  LET hits == {i \in 1..(Len(u) - 2) :
                 /\ u[i] = "drive.google.com"
                 /\ u[i + 1] = "/file/d/"
                 /\ u[i + 2] \in {"ABC123", "x_y-9"}}
  IN IF hits = {} THEN 0 ELSE CHOOSE i \in hits : \A j \in hits : i <= j

\* https://drive.google.com/uc?export=download&id=<fileId>
C11_DownloadUrl(u) ==
  <<"https://", "drive.google.com", "/uc?export=download&id=", u[C11_FileViewAt(u) + 2]>>

\* C11: for a URL containing drive.google.com/file/d/<fileId>, every GET of
\* the call, first attempt and retries, goes to
\* https://drive.google.com/uc?export=download&id=<fileId>, and none goes to
\* the file-view URL.
C11_DriveLinkRewritten ==
  (pc # "entry" /\ C11_FileViewAt(C11_Argument) # 0) =>
    /\ requested \subseteq {C11_DownloadUrl(C11_Argument)}
    /\ C11_Argument \notin requested
    /\ gets > 0 => requested = {C11_DownloadUrl(C11_Argument)}

\* the view link of file ABC123 fetched with retries
C11_Witness ==
  /\ pc = "done"
  /\ original_url = <<"https://", "drive.google.com", "/file/d/", "ABC123", "/", "view">>
  /\ gets = MaxRetriesBound
  /\ requested = {<<"https://", "drive.google.com", "/uc?export=download&id=", "ABC123">>}


\* ---- C12 ---------------------------------------------------------------
\* C12: the link normalization passes a URL without the file-view pattern
\* through unchanged, and normalizing a URL it has produced returns that URL
\* unchanged.
C12_NormalizationIdempotent ==
  /\ [][(pc = "entry" /\ C11_FileViewAt(url) = 0) =>
          (url' = url /\ original_url' = Unset)]_vars
  /\ [](pc # "entry" => NormalizeUrl(url) = [url |-> url, original_url |-> Unset])

\* the download URL produced from a share link
C12_Witness ==
  /\ pc = "loop"
  /\ original_url = <<"https://", "drive.google.com", "/file/d/", "x_y-9", "/", "cv", ".pdf">>
  /\ url = <<"https://", "drive.google.com", "/uc?export=download&id=", "x_y-9">>
  /\ NormalizeUrl(url).url = url


\* ---- C14 ---------------------------------------------------------------
\* one segment per page of the last response, in page order: the page's text,
\* empty for a page without text
C14_Segments ==
  [i \in 1..Len(response.content.items) |->
     IF response.content.items[i].r = "text" THEN response.content.items[i].t ELSE <<>>]

\* every page of the last response yields a text or nothing
C14_NoPageRaises ==
  \A i \in 1..Len(response.content.items) : response.content.items[i].r # "raise"

\* C14: for a PDF with N pages the extracted text is the concatenation, in
\* page order, of N segments, one per page; a page without extractable text
\* contributes the empty segment and leaves the other segments in place.
C14_PdfPagesInOrder ==
  (pc = "done" /\ kind = "PDF" /\ response.content.struct = "pdf" /\ C14_NoPageRaises) =>
    /\ result.type = "text"
    /\ Len(C14_Segments) = Len(response.content.items)
    /\ result.text = Concat(C14_Segments)

\* three pages, the second without text: "a", "", "b" gives "ab"
C14_Witness ==
  /\ pc = "done"
  /\ kind = "PDF"
  /\ Len(response.content.items) = 3
  /\ response.content.items[2].r = "none"
  /\ result.type = "text"
  /\ result.text = <<"a", "b">>

\* ---- C15 ---------------------------------------------------------------
\* one segment per page, empty for a page whose extraction throws
C15_Segments ==
  [i \in 1..Len(response.content.items) |->
     IF response.content.items[i].r = "text" THEN response.content.items[i].t ELSE <<>>]

\* C15: when the extraction of one page of a structurally valid PDF throws,
\* that page contributes the empty string and the other pages are still
\* extracted; the document is not aborted.
C15_ThrowingPageIsEmpty ==
  (pc = "done" /\ kind = "PDF" /\ response.content.struct = "pdf" /\ ~C14_NoPageRaises) =>
    /\ result.type = "text"
    /\ result.text = Concat(C15_Segments)

\* ---- C16 ---------------------------------------------------------------
C16_Tags == RemovedClose \cup OtherTags \cup
            {"<script>", "<style>", "<header>", "<footer>", "<nav>", "<form>", "<aside>"}

\* the payloads of the model keep "x" and "y" for text inside removed elements
C16_HiddenText == {"x", "y"}

\* C16: the output of extract_text_from_html holds no text from inside a
\* script, style, header, footer, nav, form or aside element; what remains is
\* emitted as fragments cut at line breaks and at runs of two or more spaces,
\* each trimmed, none empty, joined by single newlines.
C16_HtmlTextClean ==
  (pc = "done" /\ kind = "HTML") =>
    LET out == result.text
        html == response.content.text
    IN /\ result.type = "text"
       /\ (\E i \in 1..Len(html) : html[i] \in C16_Tags) =>
            \A i \in 1..Len(out) : out[i] \notin C16_HiddenText \cup C16_Tags
       /\ \A i \in 1..(Len(out) - 1) :
            /\ ~(out[i] = " " /\ out[i + 1] = " ")
            /\ ~(out[i] = Newline /\ out[i + 1] \in {Newline, " "})
            /\ ~(out[i] = " " /\ out[i + 1] = Newline)
       /\ out # <<>> => (out[1] \notin {" ", Newline} /\ out[Len(out)] \notin {" ", Newline})
       /\ html = <<"<script>", "x", "</script>", "<p>", "H", "i", " ", " ", "W", "o", "</p>">>
            => out = <<"H", "i", Newline, "W", "o">>
       /\ StartsWith(html, <<"<nav>", "x">>) => out = <<"A", Newline, "B", Newline, "C", " ", "D">>

\* a document with nav, style and footer elements, a run of three spaces and
\* line breaks gives "A\nB\nC D"
C16_Witness ==
  /\ pc = "done"
  /\ kind = "HTML"
  /\ StartsWith(response.content.text, <<"<nav>", "x">>)
  /\ result.text = <<"A", Newline, "B", Newline, "C", " ", "D">>

\* ---- C18 ---------------------------------------------------------------
\* last token of the url argument
C18_Suffix == C11_Argument[Len(C11_Argument)]

\* C18: for a declared type application/octet-stream the kind comes first from
\* the suffix of the original, pre-normalization URL (.pdf: PDF, .docx: DOCX,
\* in any letter case) whatever the leading bytes are, and from the byte
\* signature only when the suffix is neither.
C18_SuffixBeforeSignature ==
  (/\ last.outcome = "success"
   /\ Lower(response.content_type) = <<"application/octet-stream">>) =>
    IF C18_Suffix \in {".pdf", ".PDF", ".Pdf"} THEN kind = "PDF"
    ELSE IF C18_Suffix \in {".docx", ".DOCX"} THEN kind = "DOCX"
    ELSE IF StartsWith(response.content.head, PdfSignature) THEN kind = "PDF"
    ELSE IF StartsWith(response.content.head, ZipSignature) THEN kind = "DOCX"
    ELSE kind = "UNSUPPORTED"

\* a share link ending in .pdf whose payload has the ZIP signature
C18_Witness ==
  /\ pc = "dispatch"
  /\ original_url = <<"https://", "drive.google.com", "/file/d/", "x_y-9", "/", "cv", ".pdf">>
  /\ url = <<"https://", "drive.google.com", "/uc?export=download&id=", "x_y-9">>
  /\ response.content_type = OctetStream
  /\ response.content.head = ZipSignature
  /\ kind = "PDF"

\* ---- C20 ---------------------------------------------------------------
\* C20: called with max_retries = 0 the function issues no GET, performs no
\* sleep, raises no error and ends without a return value.
C20_ZeroRetriesReturnsNone ==
  /\ [](max_retries = 0 =>
          /\ gets = 0
          /\ sleeps = 0
          /\ requested = {}
          /\ pc \in {"entry", "loop", "done"}
          /\ result.type \in {"pending", "none"}
          /\ pc = "done" => result = ReturnsNone)
  /\ (max_retries = 0) ~> (pc = "done" /\ result.type = "none")

\* the call with max_retries = 0 has ended
C20_Witness ==
  /\ max_retries = 0
  /\ pc = "done"
  /\ result.type = "none"
  /\ gets = 0

\* ---- C13 ---------------------------------------------------------------
\* C13: the request handler maps an error of a fetch to the client's status by
\* kind: a parse failure of the resume or of the job description gives 500;
\* an unsupported content type, a connection failure and a sustained error
\* status give 400.
C13_StatusByKind ==
  (h_pc = "done" /\ fetch_error # Pending) =>
    reply.status_code = (IF fetch_error.kind = "PARSE_FAILURE" THEN 500 ELSE 400)

\* ---- C17 ---------------------------------------------------------------
\* C17: two calls running concurrently share no mutable state: under every
\* interleaving of their steps each call's attempt counter, GET count and
\* final result or error are those of the same call run alone against the
\* same sequence of responses.
C17_CallsIndependent ==
  \A i \in DOMAIN calls :
    LET alone == RunAlone(NewCall(ConcUrl, calls[i].max_retries), scripts[i])
    IN /\ calls[i].gets <= alone.gets
       /\ calls[i].attempt <= alone.attempt
       /\ calls[i].pc = "done" =>
            /\ calls[i].attempt = alone.attempt
            /\ calls[i].gets = alone.gets
            /\ calls[i].result = alone.result

\* both calls ran at the same time and ended differently, after ConcMaxRetries
\* GETs each
C17_Witness ==
  /\ calls # <<>>
  /\ overlapped
  /\ \A i \in DOMAIN calls : calls[i].pc = "done" /\ calls[i].gets = ConcMaxRetries
  /\ calls[1].result.type = "text"
  /\ calls[2].result.type = "error"
  /\ calls[2].result.kind = "HTTP_STATUS_FAILURE"

\* ---- C19 ---------------------------------------------------------------
C19_Count(e) == Cardinality({i \in 1..Len(events) : events[i] = e})

\* the resume fetch raised, or returned nothing or an empty text
C19_ResumeFailed ==
  \/ resume_outcome.type \in {"error", "none"}
  \/ resume_outcome.type = "text" /\ resume_outcome.text = <<>>

\* C19: in generate_cover_letter the job description is fetched only after the
\* resume fetch returned a non-empty text and only when no job description
\* text was supplied; the model is called at most once, and only after both
\* contents are non-empty; when the resume fetch fails or returns an empty
\* text the request ends with status 400 without a job description fetch or a
\* model call.
C19_StepsOrdered ==
  /\ C19_Count("resume_fetch") <= 1
  /\ C19_Count("job_fetch") <= 1
  /\ C19_Count("model") <= 1
  /\ \A i \in 1..Len(events) :
       /\ events[i] = "job_fetch" =>
            /\ i = 2 /\ events[1] = "resume_fetch"
            /\ resume_outcome.type = "text" /\ resume_outcome.text # <<>>
            /\ request.job_description_text \in {None, <<>>}
       /\ events[i] = "model" =>
            /\ i = Len(events) /\ events[1] = "resume_fetch"
            /\ resume_content \notin {None, <<>>}
            /\ job_description_content \notin {None, <<>>}
  /\ C19_ResumeFailed =>
       /\ h_pc = "done"
       /\ reply.status_code = 400
       /\ events = <<"resume_fetch">>

\* resume fetched, then the job description, then the model, once each
C19_Witness ==
  /\ h_pc = "done"
  /\ events = <<"resume_fetch", "job_fetch", "model">>
  /\ reply.status_code = 200

====
